---- MODULE Spec2Model ----
(***************************************************************************)
(* DevScope AI engine: the commit classification pipeline.                 *)
(*                                                                         *)
(*   CommitAnalyzer   (src/ai-engine/analyzer.py)   rate/budget governor,  *)
(*                    classification cache, remote classifier              *)
(*   BackendAPIClient (src/ai-engine/db_client.py)  delivery client and    *)
(*                    offline retry queue                                  *)
(*   main             (src/ai-engine/cli_analyzer.py)  the orchestrator:   *)
(*                    classify every commit, then deliver, then clean up   *)
(*   get_analysis_prompt (src/ai-engine/prompts/classification_prompts.py) *)
(*                    template routing                                     *)
(*                                                                         *)
(* Both classes take their file path from the same environment variable   *)
(* OFFLINE_CACHE_FILE with the same default, so the cache file and the     *)
(* offline queue file are one file on disk: the variable offline_file.     *)
(*                                                                         *)
(* Units: time in seconds, money in thousandths of a dollar, confidence    *)
(* in hundredths.                                                          *)
(***************************************************************************)
EXTENDS Integers, Sequences, FiniteSets, TLC

\* ------------------------------------------------------------------------
\* Bounds of the model
\* ------------------------------------------------------------------------
MaxClock == 120
TickStep == 20
MaxRequests == 3
MaxEnqueued == 2
MaxAttempts == 6
MaxRuns == 2
MaxWindow == 3
MaxLines == 400

\* ------------------------------------------------------------------------
\* Program constants
\* ------------------------------------------------------------------------
RATE_WINDOW == 60
estimated_request_cost == 5
RETRY_CAP == 5

PRODUCTIVITY_LABELS ==
    { "High Focus", "Distracted", "Refactoring", "Bug Fixing",
      "Research Spike", "Feature Development", "Testing", "Documentation",
      "Code Review", "Setup/Configuration" }

required_fields == { "label", "confidence", "reasoning" }

\* Configurations the analyzer is constructed with (ceiling >= 1, budget >= 0)
RateCeilings == { 1, 2 }
Budgets == { 0, 7, 10 }

\* Change identities handed to the pipeline
Ids == { "c1", "c2" }

\* ------------------------------------------------------------------------
\* Remote model responses
\*   kind "json"    : the content parsed as a JSON object
\*   kind "garbage" : json.loads raised JSONDecodeError
\*   kind "error"   : the API call raised (network error, timeout)
\* ------------------------------------------------------------------------
Resp(k, has, l, num, c) ==
    [ kind |-> k, has |-> has, label |-> l, confNum |-> num, confidence |-> c ]

RespBugFix == Resp("json", required_fields, "Bug Fixing", TRUE, 85)
RespFocus == Resp("json", required_fields, "High Focus", TRUE, 100)
RespNoLabel == Resp("json", { "confidence", "reasoning" }, "", TRUE, 85)
RespNoConfidence == Resp("json", { "label", "reasoning" }, "Testing", FALSE, 0)
RespNoReasoning == Resp("json", { "label", "confidence" }, "Testing", TRUE, 50)
RespBadLabel == Resp("json", required_fields, "General Development", TRUE, 75)
RespHighConfidence == Resp("json", required_fields, "Testing", TRUE, 150)
RespNegConfidence == Resp("json", required_fields, "Testing", TRUE, -10)
RespTextConfidence == Resp("json", required_fields, "Testing", FALSE, 0)
RespGarbage == Resp("garbage", {}, "", FALSE, 0)
RespError == Resp("error", {}, "", FALSE, 0)

Responses ==
    { RespBugFix, RespFocus, RespNoLabel, RespNoConfidence, RespNoReasoning,
      RespBadLabel, RespHighConfidence, RespNegConfidence, RespTextConfidence,
      RespGarbage, RespError }

\* analyze_commit returning None
None == Resp("none", {}, "", FALSE, 0)

\* _validate_analysis_response without the upper end of the confidence range
validate_no_upper_bound(analysis) ==
    /\ required_fields \subseteq analysis.has
    /\ analysis.label \in PRODUCTIVITY_LABELS
    /\ analysis.confNum
    /\ 0 <= analysis.confidence

\* CommitAnalyzer._validate_analysis_response
validate_analysis_response(analysis) ==
    IF ~ (required_fields \subseteq analysis.has) THEN FALSE
    ELSE IF analysis.label \notin PRODUCTIVITY_LABELS THEN FALSE
    ELSE IF ~ analysis.confNum
              \/ ~ (0 <= analysis.confidence /\ analysis.confidence <= 100)
         THEN FALSE
    ELSE TRUE

\* CommitAnalyzer._call_openai_api: the parsed analysis, or None
call_openai_api_result(resp) ==
    IF resp.kind = "json" /\ validate_analysis_response(resp) THEN resp ELSE None

\* ------------------------------------------------------------------------
\* The shared file and the JSON values held in it
\* ------------------------------------------------------------------------
EmptyMap == [ i \in {} |-> None ]

Json(k, m, l) == [ kind |-> k, map |-> m, list |-> l ]
Absent == Json("absent", EmptyMap, << >>)
Corrupt == Json("corrupt", EmptyMap, << >>)
JsonDict(m) == Json("dict", m, << >>)
JsonList(l) == Json("list", EmptyMap, l)

\* an assignment that stores nothing
MapPutNothing(m, k, v) == m

\* dict[key] = value
MapPut(m, k, v) == [ i \in (DOMAIN m) \cup { k } |-> IF i = k THEN v ELSE m[i] ]

\* a load that hands on whatever the file holds
load_cache_as_is(f) == f

\* CommitAnalyzer._load_cache
load_cache(f) ==
    IF f.kind = "dict" \/ f.kind = "list" THEN f ELSE JsonDict(EmptyMap)

\* a save that writes an empty object whatever the cache holds
save_cache_empty(c) == JsonDict(EmptyMap)

\* CommitAnalyzer._save_cache: json.dump(self.cache) to the file
save_cache(c) == c

\* how a _save_cache can go: written, open() refused, or json.dump broke off
\* after open() had truncated the file; the exception is printed and dropped
SaveOutcomes == { "ok", "unopened", "truncated" }

\* the file after a _save_cache of c that went w
save_cache_to(f, c, w) ==
    IF w = "ok" THEN save_cache(c)
    ELSE IF w = "unopened" THEN f
    ELSE Corrupt

\* a cache that is never consulted
cache_never_hit(c, id) == FALSE

\* `commit_id in self.cache`: key membership for a dict; for a list it is
\* element membership, and no element of the queue is a string
cache_has(c, id) == c.kind = "dict" /\ id \in DOMAIN c.map

\* ------------------------------------------------------------------------
\* Rate window
\* ------------------------------------------------------------------------
RECURSIVE SelectTimes(_, _)
SelectTimes(ts, now) ==
    IF ts = << >> THEN << >>
    ELSE IF now - Head(ts) < RATE_WINDOW
         THEN << Head(ts) >> \o SelectTimes(Tail(ts), now)
         ELSE SelectTimes(Tail(ts), now)

\* request_times after `[t for t in self.request_times if now - t < 60]`
prune_request_times(ts, now) == SelectTimes(ts, now)

\* a rate check that gives up when the window is full
rate_raises_when_full(ts, ceiling) == Len(ts) >= ceiling

\* `self.request_times[0]` on an empty list: with a ceiling of 0 (or below)
\* the branch is taken while no timestamp is held, and IndexError is raised
rate_raises(ts, ceiling) == Len(ts) >= ceiling /\ ts = << >>

\* a rate test that never waits
rate_never_waits(ts, now, ceiling) == FALSE

\* the rate test with > in place of >=
rate_must_wait_above(ts, now, ceiling) ==
    /\ Len(ts) > ceiling
    /\ RATE_WINDOW - (now - ts[1]) > 0

\* the branch `len(self.request_times) >= self.max_requests_per_minute`
\* followed by `wait_time > 0`
rate_must_wait(ts, now, ceiling) ==
    /\ Len(ts) >= ceiling
    /\ RATE_WINDOW - (now - ts[1]) > 0

\* an admission that leaves no timestamp
record_admission_skipped(ts, now) == ts

\* `self.request_times.append(now)`
record_admission(ts, now) == Append(ts, now)

\* the budget test without the cost of the call being admitted
check_budget_spent_only(cost, budget) ==
    IF cost > budget THEN FALSE ELSE TRUE

\* CommitAnalyzer._check_budget
check_budget(cost, budget) ==
    IF cost + estimated_request_cost > budget THEN FALSE ELSE TRUE

\* _update_cost_tracking
update_cost_tracking(cost) == cost + estimated_request_cost

\* ------------------------------------------------------------------------
\* Delivery payload and offline entries
\* ------------------------------------------------------------------------
\* BackendAPIClient._prepare_activity_data: activity_type_mapping
activity_type_mapping(l) ==
    CASE l = "High Focus" -> "coding"
      [] l = "Feature Development" -> "coding"
      [] l = "Bug Fixing" -> "debugging"
      [] l = "Refactoring" -> "refactoring"
      [] l = "Testing" -> "testing"
      [] l = "Documentation" -> "documentation"
      [] l = "Code Review" -> "review"
      [] l = "Research Spike" -> "research"
      [] l = "Setup/Configuration" -> "setup"
      [] l = "Distracted" -> "other"
      [] OTHER -> "other"

\* what _extract_commit_data gives for a revision: identity, message (by
\* the keyword the mock classifier finds in it), statistics, file count
CommitStats(a, d) == [ additions |-> a, deletions |-> d ]
extract_commit_data(id) ==
    IF id = "c1"
    THEN [ id |-> id, message |-> "fix", stats |-> CommitStats(30, 10),
           files_changed |-> 2 ]
    ELSE [ id |-> id, message |-> "other", stats |-> CommitStats(300, 0),
           files_changed |-> 1 ]

\* commit_data.get("id"), .get("stats", {}) with .get("additions", 0) and
\* .get("deletions", 0), len(.get("files_changed", []))
commit_data_id(commit_data) ==
    IF "id" \in DOMAIN commit_data THEN commit_data.id ELSE "None"
commit_data_stats(commit_data) ==
    IF "stats" \in DOMAIN commit_data THEN commit_data.stats
    ELSE CommitStats(0, 0)
commit_data_files(commit_data) ==
    IF "files_changed" \in DOMAIN commit_data THEN commit_data.files_changed
    ELSE 0

\* the estimate without its floor of 5 and its ceiling of 120
duration_minutes_unclamped(changes_count) == changes_count \div 2

\* `int(max(5, min(120, changes_count * 0.5)))`, the float counted in half
\* minutes: min and max are taken first, int() truncates last
duration_minutes(changes_count) ==
    LET halves == changes_count
        capped == IF 240 < halves THEN 240 ELSE halves
        raised == IF 10 > capped THEN 10 ELSE capped
    IN raised \div 2

prepare_activity_data(commit_data) ==
    LET stats == commit_data_stats(commit_data) IN
    [ activity_type |-> activity_type_mapping(commit_data.analysis.label),
      duration_minutes |-> duration_minutes(stats.additions + stats.deletions),
      commit_id |-> commit_data_id(commit_data),
      ai_classification |-> commit_data.analysis.label,
      files_changed |-> commit_data_files(commit_data),
      lines_added |-> stats.additions,
      lines_deleted |-> stats.deletions ]

NoData == [ activity_type |-> "", duration_minutes |-> 0, commit_id |-> "",
            ai_classification |-> "", files_changed |-> 0, lines_added |-> 0,
            lines_deleted |-> 0 ]

\* the label standing for commit_data whose "analysis" is None
NoAnalysis == "None"

\* an analysis with label l, as the classifier returns it
Classification(l) == Resp("json", required_fields, l, TRUE, 85)

\* the commit dictionary of git_parser with the analysis under "analysis"
CommitData(id, l) ==
    LET c == extract_commit_data(id) IN
    [ id |-> c.id, message |-> c.message, stats |-> c.stats,
      files_changed |-> c.files_changed,
      analysis |-> IF l = NoAnalysis THEN None ELSE Classification(l) ]

\* `analysis.get` on None raises AttributeError
prepare_raises(commit_data) == commit_data.analysis = None

\* what the sink answers to a POST: a status and whether the body parses as
\* JSON; status 0 stands for aiohttp.ClientError or a timeout
HttpReply(st, js) == [ status |-> st, json |-> js ]
NetError == HttpReply(0, FALSE)
NoReply == HttpReply(-1, FALSE)
Replies == { HttpReply(200, TRUE), HttpReply(201, TRUE), HttpReply(200, FALSE),
             HttpReply(204, FALSE), HttpReply(500, TRUE), NetError }

\* BackendAPIClient._send_to_backend: True only for status 200 or 201 whose
\* body response.json() could parse
send_to_backend(reply) ==
    IF reply.status = 200 \/ reply.status = 201
    THEN reply.json
    ELSE FALSE

\* offline_entry of _store_offline; eid names the entry (its enqueue
\* timestamp in the program)
Entry(e, d, rc) == [ eid |-> e, data |-> d, retry_count |-> rc ]

Eids == 1 .. MaxEnqueued

Range(s) == { s[i] : i \in DOMAIN s }
EidsOf(l) == { l[i].eid : i \in DOMAIN l }

\* the offline entries and the cache entries the file holds
QueueEntries(f) == IF f.kind = "list" THEN f.list ELSE << >>
CacheEntries(f) == IF f.kind = "dict" THEN f.map ELSE EmptyMap


\* BackendAPIClient._store_offline: the file after the read-modify-write.
\* A file holding a JSON object makes offline_data.append raise; the outer
\* except swallows it and nothing is written.
store_offline(f, entry) ==
    IF f.kind = "absent" THEN JsonList(<< entry >>)
    ELSE IF f.kind = "corrupt" THEN JsonList(<< entry >>)
    ELSE IF f.kind = "dict" THEN f
    ELSE JsonList(Append(f.list, entry))

\* retry_offline_data: does the sweep get as far as the loop over entries
sweep_loads(f) == f.kind = "list" /\ f.list # << >>

\* an entry without its 'data' key
MalformedEntry(e) == [ eid |-> e, retry_count |-> 0 ]

\* a loop that takes every entry as it is
sweep_entry_never_raises(entry) == FALSE

\* retry_offline_data: `activity_data = entry["data"]` raises KeyError
sweep_entry_raises(entry) == "data" \notin DOMAIN entry

\* retry_offline_data: `if retry_count >= 5`
sweep_skip(rc) == rc >= RETRY_CAP

\* a failed attempt that is not counted
sweep_failed_entry_uncounted(entry) == entry

\* retry_offline_data: the entry kept after a failed attempt
sweep_failed_entry(entry) ==
    [ entry EXCEPT !.retry_count = entry.retry_count + 1 ]

\* a sweep that forgets the entries at the cap
sweep_drop_capped(fl, entry) == fl

\* retry_offline_data: an entry at the cap is put on the failed list
sweep_keep_capped(fl, entry) == Append(fl, entry)

\* a sweep that always removes the file
sweep_write_removes(fl) == Absent

\* retry_offline_data: the file after the sweep's final write or os.remove
sweep_write(fl) == IF fl # << >> THEN JsonList(fl) ELSE Absent

Stats(a, s, f) == [ attempted |-> a, successful |-> s, failed |-> f ]
ZeroStats == Stats(0, 0, 0)

\* statistics that count every loaded entry as failed
sweep_stats_all_failed(loaded, ok, fl) ==
    Stats(Len(loaded), Len(ok), Len(loaded))

\* retry_offline_data: the stats dictionary of a sweep that got to its end
sweep_stats(loaded, ok, fl) == Stats(Len(loaded), Len(ok), Len(fl))

\* ------------------------------------------------------------------------
\* prompts.classification_prompts.get_analysis_prompt
\* ------------------------------------------------------------------------
\* what the routing reads of commit_data: is_merge, len(files_changed) and
\* the additions and deletions of stats
PromptCommit(m, f, a, d) ==
    [ is_merge |-> m, files_changed |-> f, additions |-> a, deletions |-> d ]

PromptFiles == { 0, 1, 20, 21, 25 }
PromptAdditions == { 0, 4, 9, 10, 300, 500, 600 }
PromptDeletions == { 0, 1, 6, 201 }

PromptCommits ==
    { PromptCommit(m, f, a, d) :
        m \in BOOLEAN, f \in PromptFiles,
        a \in PromptAdditions, d \in PromptDeletions }

\* CommitAnalyzer._build_analysis_prompt: one inline f-string for every
\* commit; the template it is built from
build_analysis_prompt(commit_data) == "INLINE_PROMPT"

\* the routing with the small template tried before the large one
get_analysis_prompt_small_first(commit_data) ==
    LET total_changes == commit_data.additions + commit_data.deletions IN
    IF commit_data.is_merge THEN "MERGE_COMMIT_PROMPT"
    ELSE IF total_changes < 10 THEN "SMALL_COMMIT_PROMPT"
    ELSE IF commit_data.files_changed > 20 \/ total_changes > 500
         THEN "LARGE_COMMIT_PROMPT"
    ELSE "ANALYSIS_PROMPT_TEMPLATE"

\* get_analysis_prompt: the template chosen as base_prompt
get_analysis_prompt(commit_data) ==
    LET total_changes == commit_data.additions + commit_data.deletions IN
    IF commit_data.is_merge THEN "MERGE_COMMIT_PROMPT"
    ELSE IF commit_data.files_changed > 20 \/ total_changes > 500
         THEN "LARGE_COMMIT_PROMPT"
    ELSE IF total_changes < 10 THEN "SMALL_COMMIT_PROMPT"
    ELSE "ANALYSIS_PROMPT_TEMPLATE"

\* ------------------------------------------------------------------------
\* State
\* ------------------------------------------------------------------------
VARIABLES
    clock,                    \* time.time()
    runs,                     \* processes started so far
    max_requests_per_minute,  \* CommitAnalyzer configuration
    monthly_budget,
    request_times,            \* CommitAnalyzer state
    request_count,
    estimated_cost,
    cache,
    apc,                      \* position inside analyze_commit
    cur,                      \* the analyze_commit call in progress
    wakeAt,                   \* end of the asyncio.sleep in progress
    offline_file,             \* the file behind cache_file and offline_file
    spc,                      \* position inside store_analysis
    sdata,                    \* activity_data of the call in progress
    sresult,
    sreply,                   \* what the sink answered to store_analysis
    soffline,                 \* store_analysis has called _store_offline
    session,                  \* the client holds an open aiohttp session
                  \* value store_analysis returns
    wpc,                      \* position inside retry_offline_data
    offline_data,             \* locals of retry_offline_data
    idx,
    successful,
    failed,
    stats,
    nextEid,                  \* history: entries enqueued so far
    admitted,                 \* history: timestamps recorded by this analyzer
    returned,                 \* history: first result returned per identity
    calls_of,                 \* history: remote calls this analyzer made, per identity
    classified_of,            \* history: remote classifications returned, per identity
    deliveredOK,              \* history: entries a sweep delivered
    attempts,                 \* history: failed sweep attempts per entry
    outcome,                  \* history: per entry, outcome in this sweep
    opc,                      \* position inside cli_analyzer.main
    use_mock,                 \* main classifies with mock_analysis
    commits,                  \* locals of main
    pos,
    analyzed_commits,
    spos,
    success_count,
    exit_path,                \* history: how main left its try block
    refused,                  \* history: identities whose analysis gave nothing
    stored,                   \* history: identities handed to store_analysis
    prompt_commit,            \* the commit get_analysis_prompt is given
    base_prompt,              \* the template it chose
    prompt,                   \* the prompt analyze_commit builds for it
    last_save,                \* history: how the last _save_cache went
    repo,                     \* GitLogParser.repo is set
    window,                   \* the revisions iter_commits yields
    gpc,                      \* position inside get_recent_commits
    gidx,                     \* revisions taken from the iterator
    recent,                   \* the list get_recent_commits builds and returns
    iter_failed               \* history: the iteration itself raised

avars == << max_requests_per_minute, monthly_budget, request_times,
            request_count, estimated_cost, cache, apc, cur, wakeAt,
            admitted, returned, calls_of, classified_of >>
svars == << spc, sdata, sresult, sreply, soffline, session, nextEid >>
wvars == << wpc, offline_data, idx, successful, failed, stats,
            deliveredOK, attempts, outcome >>
ovars == << opc, use_mock, commits, pos, analyzed_commits, spos, success_count,
            exit_path, refused, stored >>
pvars == << prompt_commit, base_prompt, prompt >>
cvars == << last_save >>
gvars == << repo, window, gpc, gidx, recent, iter_failed >>
vars == << clock, runs, offline_file, avars, svars, wvars, ovars, pvars,
           cvars, gvars >>

NoCall == [ id |-> "", result |-> None, remote |-> FALSE, resp |-> None,
            prior |-> None, before |-> << >>, slept |-> FALSE ]
NoCalls == [ i \in Ids |-> 0 ]
NoOutcome == [ e \in Eids |-> "none" ]

AllIdle == apc = "idle" /\ spc = "idle" /\ wpc = "idle"

\* CommitAnalyzer.__init__
analyzer_init(f) ==
    /\ request_times' = << >>
    /\ request_count' = 0
    /\ estimated_cost' = 0
    /\ cache' = load_cache(f)
    /\ admitted' = << >>
    /\ calls_of' = NoCalls

\* what the file holds when the first process starts: nothing, bytes that are
\* not JSON, or a queue an earlier BackendAPIClient left behind
QueuedPayload == prepare_activity_data(CommitData("c1", "Bug Fixing"))
InitialFiles == { Absent, Corrupt, JsonList(<< Entry(1, QueuedPayload, 0) >>) }

InitWith(ceilings, budgets, files) ==
    /\ clock = 0
    /\ runs = 1
    /\ max_requests_per_minute \in ceilings
    /\ monthly_budget \in budgets
    /\ offline_file \in files
    /\ request_times = << >>
    /\ request_count = 0
    /\ estimated_cost = 0
    /\ cache = load_cache(offline_file)
    /\ apc = "idle"
    /\ cur = NoCall
    /\ wakeAt = 0
    /\ spc = "idle"
    /\ sdata = NoData
    /\ sresult = FALSE
    /\ sreply = NoReply
    /\ soffline = FALSE
    /\ session = FALSE
    /\ wpc = "idle"
    /\ offline_data = << >>
    /\ idx = 0
    /\ successful = << >>
    /\ failed = << >>
    /\ stats = ZeroStats
    /\ nextEid = 1 + Len(QueueEntries(offline_file))
    /\ admitted = << >>
    /\ returned = [ i \in Ids |-> None ]
    /\ calls_of = NoCalls
    /\ classified_of = NoCalls
    /\ deliveredOK = {}
    /\ attempts = [ e \in Eids |-> 0 ]
    /\ outcome = NoOutcome
    /\ commits = << >>
    /\ pos = 0
    /\ analyzed_commits = << >>
    /\ spos = 0
    /\ success_count = 0
    /\ exit_path = ""
    /\ refused = {}
    /\ stored = << >>

\* no prompt is being built
NoPrompt ==
    /\ prompt_commit = PromptCommit(FALSE, 0, 0, 0)
    /\ base_prompt = ""
    /\ prompt = ""

\* no GitLogParser is at work
NoParser ==
    /\ repo = FALSE
    /\ window = << >>
    /\ gpc = "off"
    /\ gidx = 0
    /\ recent = << >>
    /\ iter_failed = FALSE

\* the components used on their own: main is not running
MainOff == opc = "off" /\ use_mock = FALSE /\ last_save = "none" /\ NoParser

Init == InitWith(RateCeilings, Budgets, InitialFiles) /\ MainOff /\ NoPrompt

\* ------------------------------------------------------------------------
\* CommitAnalyzer.analyze_commit
\* ------------------------------------------------------------------------
\* analyze_commit returns r
Finish(call, r) ==
    /\ apc' = "done"
    /\ cur' = [ call EXCEPT !.result = r ]
    /\ returned' = IF r # None /\ returned[call.id] = None
                   THEN [ returned EXCEPT ![call.id] = r ]
                   ELSE returned

\* _check_rate_limits at time clock, then _check_budget
Admission(call) ==
    LET ts == prune_request_times(request_times, clock) IN
    IF rate_raises(ts, max_requests_per_minute)
    THEN \* IndexError leaves analyze_commit
         /\ request_times' = ts
         /\ wakeAt' = 0
         /\ apc' = "raised"
         /\ cur' = call
         /\ UNCHANGED << admitted, returned, calls_of >>
    ELSE IF rate_must_wait(ts, clock, max_requests_per_minute)
    THEN /\ request_times' = ts
         /\ wakeAt' = clock + (RATE_WINDOW - (clock - ts[1]))
         /\ apc' = "sleeping"
         /\ cur' = [ call EXCEPT !.slept = TRUE ]
         /\ UNCHANGED << admitted, returned, calls_of >>
    ELSE /\ request_times' = record_admission(ts, clock)
         /\ admitted' = Append(admitted, clock)
         /\ wakeAt' = 0
         /\ IF check_budget(estimated_cost, monthly_budget)
            THEN \* the remote call is under way
                 /\ apc' = "calling"
                 /\ cur' = call
                 /\ calls_of' = [ calls_of EXCEPT ![call.id] = @ + 1 ]
                 /\ UNCHANGED returned
            ELSE /\ Finish(call, None)
                 /\ UNCHANGED calls_of

\* an analyze_commit that goes to the governor before it looks at the cache
AnalyzeBeginGoverned(id) ==
    /\ AllIdle
    /\ Len(admitted) < MaxRequests
    /\ Admission([ NoCall EXCEPT !.id = id, !.prior = returned[id],
                                 !.before = request_times ])
    /\ UNCHANGED << clock, runs, offline_file, max_requests_per_minute,
                    monthly_budget, request_count, estimated_cost, cache,
                    classified_of, svars, wvars >>

\* analyze_commit up to its first await: the cache, then the governor
AnalyzeBegin(id) ==
    /\ AllIdle
    /\ LET call == [ NoCall EXCEPT !.id = id, !.prior = returned[id],
                                   !.before = request_times ] IN
       IF cache_has(cache, id)
       THEN /\ Finish(call, cache.map[id])
            /\ UNCHANGED << request_times, admitted, wakeAt, calls_of >>
       ELSE /\ Len(admitted) < MaxRequests
            /\ Admission(call)
    /\ UNCHANGED << clock, runs, offline_file, max_requests_per_minute,
                    monthly_budget, request_count, estimated_cost, cache,
                    classified_of, svars, wvars >>

\* asyncio.sleep(wait_time) is over: the recursive _check_rate_limits
AnalyzeWake ==
    /\ apc = "sleeping"
    /\ clock >= wakeAt
    /\ Admission(cur)
    /\ UNCHANGED << clock, runs, offline_file, max_requests_per_minute,
                    monthly_budget, request_count, estimated_cost, cache,
                    classified_of, svars, wvars >>

\* the remote model answers resp; the _save_cache that follows goes w
AnalyzeRespondWith(resp, w) ==
    /\ apc = "calling"
    /\ LET analysis == call_openai_api_result(resp)
           call == [ cur EXCEPT !.remote = TRUE, !.resp = resp ]
       IN
       /\ request_count' = IF analysis # None THEN request_count + 1
                           ELSE request_count
       /\ IF analysis # None /\ cache.kind = "dict"
          THEN /\ cache' = JsonDict(MapPut(cache.map, cur.id, analysis))
               /\ offline_file' = save_cache_to(offline_file, cache', w)
               /\ estimated_cost' = update_cost_tracking(estimated_cost)
               /\ classified_of' = [ classified_of EXCEPT ![cur.id] = @ + 1 ]
               /\ Finish(call, analysis)
          ELSE \* no analysis, or item assignment on a list raised TypeError
               /\ Finish(call, None)
               /\ UNCHANGED << cache, offline_file, estimated_cost,
                               classified_of >>
    /\ UNCHANGED << clock, runs, max_requests_per_minute, monthly_budget,
                    request_times, wakeAt, admitted, calls_of, svars, wvars >>

\* the remote model answers resp and the cache is written
AnalyzeRespond(resp) == AnalyzeRespondWith(resp, "ok")

AnalyzeReturn ==
    /\ apc \in { "done", "raised" }
    /\ apc' = "idle"
    /\ cur' = NoCall
    /\ UNCHANGED << clock, runs, offline_file, max_requests_per_minute,
                    monthly_budget, request_times, request_count,
                    estimated_cost, cache, wakeAt, admitted, returned,
                    calls_of, classified_of, svars, wvars >>

\* CommitAnalyzer.cleanup, whose _save_cache goes w
CleanupWith(w) ==
    /\ AllIdle
    /\ offline_file' = save_cache_to(offline_file, cache, w)
    /\ UNCHANGED << clock, runs, avars, svars, wvars >>

\* CommitAnalyzer.cleanup, the cache is written
Cleanup == CleanupWith("ok")


\* ------------------------------------------------------------------------
\* BackendAPIClient.store_analysis
\* ------------------------------------------------------------------------
\* labels of the classifications handed to the delivery client
DeliveredLabels == { RespBugFix.label, RespFocus.label }

\* store_analysis up to its first await: the payload is mapped
StoreStart(commit_data) ==
    /\ nextEid <= MaxEnqueued
    /\ IF prepare_raises(commit_data)
       THEN \* `except Exception`: the fallback maps the payload again, which
            \* raises again and is passed over; return False
            /\ spc' = "done"
            /\ UNCHANGED sdata
       ELSE /\ sdata' = prepare_activity_data(commit_data)
            /\ spc' = "sending"
    /\ UNCHANGED << clock, runs, offline_file, avars, sresult, sreply,
                    soffline, session, nextEid, wvars >>

\* store_analysis called while nothing else is under way
StoreBegin(commit_data) ==
    /\ AllIdle
    /\ StoreStart(commit_data)

\* store_analysis called as a second task while retry_offline_data may be
\* suspended at one of its awaits
StoreBeginConcurrent(commit_data) ==
    /\ apc = "idle"
    /\ spc = "idle"
    /\ StoreStart(commit_data)

\* _send_to_backend got reply from the sink
StoreSend(reply) ==
    /\ spc = "sending"
    /\ session' = TRUE
    /\ sreply' = reply
    /\ IF send_to_backend(reply)
       THEN /\ spc' = "done"
            /\ sresult' = TRUE
       ELSE /\ spc' = "offline"
            /\ UNCHANGED sresult
    /\ UNCHANGED << clock, runs, offline_file, avars, sdata, soffline,
                    nextEid, wvars >>

\* _store_offline(activity_data); return False
StoreOffline ==
    /\ spc = "offline"
    /\ offline_file' = store_offline(offline_file, Entry(nextEid, sdata, 0))
    /\ nextEid' = nextEid + 1
    /\ soffline' = TRUE
    /\ spc' = "done"
    /\ sresult' = FALSE
    /\ UNCHANGED << clock, runs, avars, sdata, sreply, session, wvars >>

StoreReturn ==
    /\ spc = "done"
    /\ spc' = "idle"
    /\ sdata' = NoData
    /\ sresult' = FALSE
    /\ sreply' = NoReply
    /\ soffline' = FALSE
    /\ UNCHANGED << clock, runs, offline_file, avars, session, nextEid, wvars >>

\* BackendAPIClient.cleanup
ClientCleanup ==
    /\ AllIdle
    /\ session' = FALSE
    /\ UNCHANGED << clock, runs, offline_file, avars, spc, sdata, sresult,
                    sreply, soffline, nextEid, wvars >>

\* ------------------------------------------------------------------------
\* BackendAPIClient.retry_offline_data
\* ------------------------------------------------------------------------
\* retry_offline_data up to its loop; readable is whether the file, if
\* there is one, can be opened and read
SweepBeginWith(readable) ==
    /\ AllIdle
    /\ \A e \in Eids : attempts[e] < MaxAttempts
    /\ outcome' = NoOutcome
    /\ successful' = << >>
    /\ failed' = << >>
    /\ IF readable /\ sweep_loads(offline_file)
       THEN /\ offline_data' = offline_file.list
            /\ idx' = 1
            /\ wpc' = "iter"
            /\ UNCHANGED stats
       ELSE \* no file, a file that cannot be read, unparsable file, empty
            \* value, or a JSON object whose iteration raises: all-zero
            \* statistics, nothing written
            /\ offline_data' = << >>
            /\ idx' = 0
            /\ wpc' = "done"
            /\ stats' = ZeroStats
    /\ UNCHANGED << clock, runs, offline_file, avars, svars, deliveredOK,
                    attempts >>

\* retry_offline_data called, the file readable if it exists
SweepBegin == SweepBeginWith(TRUE)

\* one iteration of `for entry in offline_data`; reply is what the sink
\* answers when the entry is sent
SweepEntry(reply) ==
    /\ wpc = "iter"
    /\ idx <= Len(offline_data)
    /\ LET entry == offline_data[idx] IN
       IF sweep_entry_raises(entry)
       THEN \* KeyError reaches `except Exception`: all-zero statistics
            /\ wpc' = "done"
            /\ stats' = ZeroStats
            /\ UNCHANGED << idx, successful, failed, deliveredOK, attempts,
                            outcome, session >>
       ELSE IF sweep_skip(entry.retry_count)
       THEN /\ failed' = sweep_keep_capped(failed, entry)
            /\ idx' = idx + 1
            /\ UNCHANGED << successful, deliveredOK, attempts, outcome,
                            session, wpc, stats >>
       ELSE IF send_to_backend(reply)
       THEN /\ session' = TRUE
            /\ successful' = Append(successful, entry)
            /\ deliveredOK' = deliveredOK \cup { entry.eid }
            /\ outcome' = [ outcome EXCEPT ![entry.eid] = "ok" ]
            /\ idx' = idx + 1
            /\ UNCHANGED << failed, attempts, wpc, stats >>
       ELSE /\ session' = TRUE
            /\ failed' = Append(failed, sweep_failed_entry(entry))
            /\ attempts' = [ attempts EXCEPT ![entry.eid] = @ + 1 ]
            /\ outcome' = [ outcome EXCEPT ![entry.eid] = "fail" ]
            /\ idx' = idx + 1
            /\ UNCHANGED << successful, deliveredOK, wpc, stats >>
    /\ UNCHANGED << clock, runs, offline_file, avars, spc, sdata, sresult,
                    sreply, soffline, nextEid, offline_data >>

\* the loop is over: write the failed entries or remove the file
SweepFinish ==
    /\ wpc = "iter"
    /\ idx > Len(offline_data)
    /\ offline_file' = sweep_write(failed)
    /\ stats' = sweep_stats(offline_data, successful, failed)
    /\ wpc' = "done"
    /\ UNCHANGED << clock, runs, avars, svars, offline_data, idx, successful,
                    failed, deliveredOK, attempts, outcome >>

SweepReturn ==
    /\ wpc = "done"
    /\ wpc' = "idle"
    /\ offline_data' = << >>
    /\ idx' = 0
    /\ successful' = << >>
    /\ failed' = << >>
    /\ stats' = ZeroStats
    /\ outcome' = NoOutcome
    /\ UNCHANGED << clock, runs, offline_file, avars, svars, deliveredOK,
                    attempts >>

\* ------------------------------------------------------------------------
\* Environment
\* ------------------------------------------------------------------------
\* time passes
Tick ==
    /\ spc = "idle"
    /\ wpc = "idle"
    /\ clock + TickStep <= MaxClock
    /\ clock' = clock + TickStep
    /\ UNCHANGED << runs, offline_file, avars, svars, wvars >>

\* the process ends and a new one constructs its CommitAnalyzer and
\* BackendAPIClient over the same file
Restart ==
    /\ AllIdle
    /\ runs < MaxRuns
    /\ runs' = runs + 1
    /\ analyzer_init(offline_file)
    /\ UNCHANGED << clock, offline_file, max_requests_per_minute,
                    monthly_budget, apc, cur, wakeAt, returned,
                    classified_of, svars, wvars >>

AnalyzerStep(resps) ==
    \/ \E id \in Ids : AnalyzeBegin(id)
    \/ \E resp \in resps : AnalyzeRespond(resp)
    \/ AnalyzeReturn
    \/ Cleanup
    \/ Restart

ClientStepWith(labels, replies) ==
    \/ \E id \in Ids, l \in labels : StoreBegin(CommitData(id, l))
    \/ \E reply \in replies : StoreSend(reply)
    \/ StoreOffline
    \/ StoreReturn
    \/ SweepBegin
    \/ \E reply \in replies : SweepEntry(reply)
    \/ SweepFinish
    \/ SweepReturn

ClientStep(labels) == ClientStepWith(labels, Replies)

\* The governor and the classifier: one CommitAnalyzer per process, time
\* passing, over whatever file it finds.
NextGovernor ==
    /\ \/ AnalyzerStep(Responses)
       \/ AnalyzeWake
       \/ Tick
    /\ UNCHANGED << ovars, pvars, cvars, gvars >>

SpecGovernor == Init /\ [][NextGovernor]_vars

\* The same, with time passing and asyncio.sleep returning: the event loop
\* resumes a sleeping coroutine once its delay is over.
SpecGovernorFair ==
    /\ SpecGovernor
    /\ WF_vars(Tick /\ UNCHANGED << ovars, pvars, cvars, gvars >>)
    /\ WF_vars(AnalyzeWake /\ UNCHANGED << ovars, pvars, cvars, gvars >>)

\* The delivery client and its offline queue next to the analyzer that shares
\* its file, within one rate window (no time passes).
InitDelivery ==
    InitWith({ 2 }, { 12 }, { Absent, Corrupt }) /\ MainOff /\ NoPrompt

\* answers of the remote model in the delivery specification: two accepted
\* ones and a rejected one
DeliveryResponses == { RespBugFix, RespFocus, RespBadLabel }

\* answers of the sink in the delivery specification: accepted, and down
DeliveryReplies == { HttpReply(200, TRUE), NetError }

NextDelivery ==
    /\ \/ AnalyzerStep(DeliveryResponses)
       \/ ClientStepWith({ RespBugFix.label }, DeliveryReplies)
    /\ UNCHANGED << ovars, pvars, cvars, gvars >>

SpecDelivery == InitDelivery /\ [][NextDelivery]_vars

\* The delivery client alone, as db_client.py runs it, over a file that is
\* missing, unparsable, or holds the cache object an analyzer saved.
InitQueue ==
    /\ InitWith({ 2 }, { 12 }, { Absent, Corrupt, JsonDict(EmptyMap) })
    /\ MainOff
    /\ NoPrompt

\* what store_analysis is given as the analysis of a commit
QueueInputs == DeliveredLabels \cup { NoAnalysis }

NextQueue ==
    /\ \/ ClientStep(QueueInputs)
       \/ ClientCleanup
    /\ UNCHANGED << ovars, pvars, cvars, gvars >>

SpecQueue == InitQueue /\ [][NextQueue]_vars

\* ------------------------------------------------------------------------
\* store_analysis and retry_offline_data as two tasks of one event loop
\* ------------------------------------------------------------------------
InitConcurrent ==
    /\ InitWith({ 2 }, { 12 },
                { Absent, JsonList(<< Entry(1, QueuedPayload, 0) >>) })
    /\ MainOff
    /\ NoPrompt

NextConcurrent ==
    /\ \/ \E id \in Ids :
              StoreBeginConcurrent(CommitData(id, RespBugFix.label))
       \/ \E reply \in DeliveryReplies : StoreSend(reply)
       \/ StoreOffline
       \/ StoreReturn
       \/ SweepBegin
       \/ \E reply \in DeliveryReplies : SweepEntry(reply)
       \/ SweepFinish
       \/ SweepReturn
    /\ UNCHANGED << ovars, pvars, cvars, gvars >>

SpecConcurrent == InitConcurrent /\ [][NextConcurrent]_vars

\* ------------------------------------------------------------------------
\* _prepare_activity_data applied to commits of every size
\* ------------------------------------------------------------------------
PayloadAdditions == { 0, 1, 5, 9, 10, 11, 12, 120, 239, 240, 241, 300 }
PayloadDeletions == { 0, 1, 2, 60 }

\* a commit with these statistics, classified
SizedCommit(a, d) ==
    [ id |-> "c1", message |-> "fix", stats |-> CommitStats(a, d),
      files_changed |-> 1, analysis |-> Classification("Bug Fixing") ]

InitPayload ==
    /\ InitWith({ 2 }, { 12 }, { Absent })
    /\ MainOff
    /\ NoPrompt

NextPayload ==
    /\ \/ \E a \in PayloadAdditions, d \in PayloadDeletions :
              StoreBegin(SizedCommit(a, d))
       \/ StoreSend(HttpReply(200, TRUE))
       \/ StoreReturn
    /\ UNCHANGED << ovars, pvars, cvars, gvars >>

SpecPayload == InitPayload /\ [][NextPayload]_vars

\* ------------------------------------------------------------------------
\* cli_analyzer.main
\* ------------------------------------------------------------------------
\* what get_recent_commits can return
CommitLists == { << >>, << "c1" >>, << "c1", "c2" >>, << "c2", "c1" >> }

\* an element of analyzed_commits: the identity goes under 'commit_sha'
AnalyzedCommit(id, analysis) == [ commit_sha |-> id, analysis |-> analysis ]

Shas(l) == { l[i].commit_sha : i \in DOMAIN l }

\* every result is kept, a missing one too
keep_any(analysis_result) == TRUE

\* `if analysis_result:` ... else `continue`
keep_result(analysis_result) == analysis_result # None

\* the second loop starts as soon as one commit has been looked at
classification_over_early(i, cs) == i > 1

\* `for i, commit in enumerate(commits, 1)` is exhausted
classification_over(i, cs) == i > Len(cs)

\* the second loop stops after its first element
delivery_over_early(i, l) == i > 1 \/ i > Len(l)

\* `for commit_data in analyzed_commits` is exhausted
delivery_over(i, l) == i > Len(l)

\* mock_analysis(commit): the label by the keyword found in the message
mock_analysis(message) ==
    CASE message = "fix" -> Resp("json", required_fields, "Bug Fixing", TRUE, 85)
      [] message = "refactor" ->
             Resp("json", required_fields, "Refactoring", TRUE, 82)
      [] message = "feat" -> Resp("json", required_fields, "High Focus", TRUE, 88)
      [] message = "test" -> Resp("json", required_fields, "Testing", TRUE, 80)
      [] message = "doc" ->
             Resp("json", required_fields, "Documentation", TRUE, 83)
      [] OTHER -> Resp("json", required_fields, "General Development", TRUE, 75)

\* commits = git_parser.get_recent_commits(); `if not commits: return`
PipeStart ==
    /\ opc = "start"
    /\ \E cs \in CommitLists :
          /\ commits' = cs
          /\ IF cs = << >>
             THEN /\ opc' = "finally"
                  /\ exit_path' = "no_commits"
                  /\ UNCHANGED pos
             ELSE /\ opc' = "classify"
                  /\ pos' = 1
                  /\ UNCHANGED exit_path
    /\ UNCHANGED << clock, runs, offline_file, avars, svars, wvars,
                    use_mock, analyzed_commits, spos, success_count, refused,
                    stored >>

\* analysis_result = await analyzer.analyze_commit(commit)
PipeAnalyze ==
    /\ opc = "classify"
    /\ ~use_mock
    /\ ~classification_over(pos, commits)
    /\ AnalyzeBegin(commits[pos])
    /\ opc' = "classifying"
    /\ UNCHANGED << use_mock, commits, pos, analyzed_commits, spos, success_count,
                    exit_path, refused, stored >>

\* analysis_result = mock_analysis(commit), appended as it is
PipeMock ==
    /\ opc = "classify"
    /\ use_mock
    /\ ~classification_over(pos, commits)
    /\ analyzed_commits' =
           Append(analyzed_commits,
                  AnalyzedCommit(commits[pos],
                      mock_analysis(extract_commit_data(commits[pos]).message)))
    /\ pos' = pos + 1
    /\ UNCHANGED << clock, runs, offline_file, avars, svars, wvars, opc,
                    use_mock, commits, spos, success_count, exit_path,
                    refused, stored >>

\* analyze_commit is over: append the result, or `continue` after None or
\* an exception
PipeAnalyzed ==
    /\ opc = "classifying"
    /\ AnalyzeReturn
    /\ IF apc = "done" /\ keep_result(cur.result)
       THEN /\ analyzed_commits' =
                   Append(analyzed_commits, AnalyzedCommit(cur.id, cur.result))
            /\ refused' = IF cur.result = None THEN refused \cup { cur.id }
                          ELSE refused
       ELSE /\ refused' = refused \cup { cur.id }
            /\ UNCHANGED analyzed_commits
    /\ pos' = pos + 1
    /\ opc' = "classify"
    /\ UNCHANGED << use_mock, commits, spos, success_count, exit_path, stored >>

\* the first loop is over: `for commit_data in analyzed_commits`
PipeClassified ==
    /\ opc = "classify"
    /\ classification_over(pos, commits)
    /\ opc' = "deliver"
    /\ spos' = 1
    /\ UNCHANGED << clock, runs, offline_file, avars, svars, wvars, use_mock, commits,
                    pos, analyzed_commits, success_count, exit_path, refused,
                    stored >>

\* await db_client.store_analysis(commit_data)
PipeStore ==
    /\ opc = "deliver"
    /\ ~delivery_over(spos, analyzed_commits)
    /\ LET commit_data == analyzed_commits[spos] IN
       /\ StoreBegin(commit_data)
       /\ stored' = Append(stored, commit_data.commit_sha)
    /\ opc' = "delivering"
    /\ UNCHANGED << use_mock, commits, pos, analyzed_commits, spos, success_count,
                    exit_path, refused >>

\* store_analysis is over: `success_count += 1` if it returned True
PipeStored ==
    /\ opc = "delivering"
    /\ StoreReturn
    /\ success_count' = IF sresult THEN success_count + 1 ELSE success_count
    /\ spos' = spos + 1
    /\ opc' = "deliver"
    /\ UNCHANGED << use_mock, commits, pos, analyzed_commits, exit_path, refused,
                    stored >>

\* the second loop is over: the summary, then the finally block
PipeDelivered ==
    /\ opc = "deliver"
    /\ delivery_over(spos, analyzed_commits)
    /\ opc' = "finally"
    /\ exit_path' = "normal"
    /\ UNCHANGED << clock, runs, offline_file, avars, svars, wvars, use_mock, commits,
                    pos, analyzed_commits, spos, success_count, refused,
                    stored >>

\* KeyboardInterrupt, or an exception that reaches `except Exception: raise`,
\* while the try block runs: the coroutine being awaited is abandoned
PipeAbort(how) ==
    /\ opc \in { "start", "classify", "classifying", "deliver", "delivering" }
    /\ opc' = "finally"
    /\ exit_path' = how
    /\ apc' = "idle"
    /\ cur' = NoCall
    /\ wakeAt' = 0
    /\ spc' = "idle"
    /\ sdata' = NoData
    /\ sresult' = FALSE
    /\ sreply' = NoReply
    /\ soffline' = FALSE
    /\ UNCHANGED << clock, runs, offline_file, max_requests_per_minute,
                    monthly_budget, request_times, request_count,
                    estimated_cost, cache, admitted, returned, calls_of,
                    classified_of, session, nextEid, wvars, use_mock, commits, pos,
                    analyzed_commits, spos, success_count, refused, stored >>

\* finally: await analyzer.cleanup()
PipeCleanupAnalyzer ==
    /\ opc = "finally"
    /\ Cleanup
    /\ opc' = "closing"
    /\ UNCHANGED << use_mock, commits, pos, analyzed_commits, spos, success_count,
                    exit_path, refused, stored >>

\* finally: await db_client.cleanup(); main returns
PipeCleanupClient ==
    /\ opc = "closing"
    /\ ClientCleanup
    /\ opc' = "exited"
    /\ UNCHANGED << use_mock, commits, pos, analyzed_commits, spos, success_count,
                    exit_path, refused, stored >>

\* the program is started again over the same file
PipeRerun ==
    /\ opc = "exited"
    /\ Restart
    /\ opc' = "start"
    /\ UNCHANGED use_mock
    /\ commits' = << >>
    /\ pos' = 0
    /\ analyzed_commits' = << >>
    /\ spos' = 0
    /\ success_count' = 0
    /\ exit_path' = ""
    /\ refused' = {}
    /\ stored' = << >>

\* what the remote model and the sink answer in the pipeline specification
PipelineResponses == { RespBugFix, RespBadLabel }
PipelineReplies == { HttpReply(200, TRUE), NetError }

\* the steps taken inside analyze_commit and store_analysis while main
\* awaits them
PipeAwaited ==
    /\ \/ \E resp \in PipelineResponses : AnalyzeRespond(resp)
       \/ AnalyzeWake
       \/ \E reply \in PipelineReplies : StoreSend(reply)
       \/ StoreOffline
       \/ Tick
    /\ UNCHANGED ovars

\* One run of main after another, with the remote model or with the mock
\* classifier: a ceiling of 0 or 1 request per minute, a
\* budget for one remote call, no file or a cache that already holds c1.
CachedFocus == JsonDict(MapPut(EmptyMap, "c1", call_openai_api_result(RespFocus)))

InitPipeline ==
    /\ InitWith({ 0, 1 }, { 7 }, { Absent, CachedFocus })
    /\ opc = "start"
    /\ use_mock \in BOOLEAN
    /\ last_save = "none"
    /\ NoParser
    /\ NoPrompt

NextPipeline ==
    /\ \/ PipeStart
       \/ PipeAnalyze
       \/ PipeMock
       \/ PipeAnalyzed
       \/ PipeClassified
       \/ PipeStore
       \/ PipeStored
       \/ PipeDelivered
       \/ \E how \in { "interrupt", "exception" } : PipeAbort(how)
       \/ PipeCleanupAnalyzer
       \/ PipeCleanupClient
       \/ PipeRerun
       \/ PipeAwaited
    /\ UNCHANGED << pvars, cvars, gvars >>

SpecPipeline == InitPipeline /\ [][NextPipeline]_vars

\* ------------------------------------------------------------------------
\* get_analysis_prompt applied to a commit
\* ------------------------------------------------------------------------
GetAnalysisPrompt ==
    /\ base_prompt = ""
    /\ base_prompt' = get_analysis_prompt(prompt_commit)
    /\ UNCHANGED << clock, runs, offline_file, avars, svars, wvars, ovars,
                    prompt_commit, prompt, cvars, gvars >>

\* analyze_commit: prompt = self._build_analysis_prompt(commit_data)
BuildAnalysisPrompt ==
    /\ prompt = ""
    /\ prompt' = build_analysis_prompt(prompt_commit)
    /\ UNCHANGED << clock, runs, offline_file, avars, svars, wvars, ovars,
                    prompt_commit, base_prompt, cvars, gvars >>

InitPrompt ==
    /\ InitWith({ 2 }, { 12 }, { Absent })
    /\ MainOff
    /\ prompt_commit \in PromptCommits
    /\ base_prompt = ""
    /\ prompt = ""

NextPrompt ==
    \/ GetAnalysisPrompt
    \/ BuildAnalysisPrompt

SpecPrompt == InitPrompt /\ [][NextPrompt]_vars

\* ------------------------------------------------------------------------
\* GitLogParser.get_recent_commits
\* ------------------------------------------------------------------------
\* a revision the iterator yields; _extract_commit_data raises inside for one
\* that is not extractable
Revision(id, ok) == [ id |-> id, extractable |-> ok ]

\* the windows of up to MaxWindow revisions, the i-th one named by position
Windows ==
    LET ids == << "c1", "c2", "c3", "c4", "c5", "c6", "c7", "c8", "c9" >>
    IN UNION { { [ i \in 1..n |-> Revision(ids[i], f[i]) ] :
                   f \in [ 1..n -> BOOLEAN ] } : n \in 0..MaxWindow }

\* `return None`
NoCommitData == [ id |-> "None" ]

\* _extract_commit_data(commit): the dictionary, or None after an exception
try_extract_commit_data(commit) ==
    IF commit.extractable THEN extract_commit_data(commit.id) ELSE NoCommitData

\* whatever _extract_commit_data returned is appended
keep_commit_data_always(commit_data) == TRUE

\* `if commit_data:`
keep_commit_data(commit_data) == commit_data # NoCommitData

\* `if not self.repo: return []`, else the loop over iter_commits starts
GetRecentBegin ==
    /\ gpc = "idle"
    /\ recent' = << >>
    /\ gidx' = 0
    /\ gpc' = IF repo THEN "iterating" ELSE "returned"
    /\ UNCHANGED << repo, window, iter_failed >>

\* `for commit in commit_iter`: one revision
GetRecentCommit ==
    /\ gpc = "iterating"
    /\ gidx < Len(window)
    /\ LET commit_data == try_extract_commit_data(window[gidx + 1]) IN
       recent' = IF keep_commit_data(commit_data)
                 THEN Append(recent, commit_data)
                 ELSE recent
    /\ gidx' = gidx + 1
    /\ UNCHANGED << repo, window, gpc, iter_failed >>

\* the iterator is exhausted: `return commits`
GetRecentReturn ==
    /\ gpc = "iterating"
    /\ gidx = Len(window)
    /\ gpc' = "returned"
    /\ UNCHANGED << repo, window, gidx, recent, iter_failed >>

\* iter_commits or the iterator raises: `except Exception: return []`
GetRecentRaised ==
    /\ gpc = "iterating"
    /\ recent' = << >>
    /\ iter_failed' = TRUE
    /\ gpc' = "returned"
    /\ UNCHANGED << repo, window, gidx >>

\* a GitLogParser over a repository that opens or not, and the revisions of
\* its window
InitExtract ==
    /\ InitWith({ 2 }, { 12 }, { Absent })
    /\ opc = "off"
    /\ use_mock = FALSE
    /\ last_save = "none"
    /\ NoPrompt
    /\ repo \in BOOLEAN
    /\ window \in Windows
    /\ gpc = "idle"
    /\ gidx = 0
    /\ recent = << >>
    /\ iter_failed = FALSE

NextExtract ==
    /\ \/ GetRecentBegin
       \/ GetRecentCommit
       \/ GetRecentReturn
       \/ GetRecentRaised
    /\ UNCHANGED << clock, runs, offline_file, avars, svars, wvars, ovars,
                    pvars, cvars >>

SpecExtract == InitExtract /\ [][NextExtract]_vars

\* ------------------------------------------------------------------------
\* CommitAnalyzer over a cache file whose writes can fail
\* ------------------------------------------------------------------------
CacheRespond(resp, w) ==
    /\ AnalyzeRespondWith(resp, w)
    /\ last_save' = IF call_openai_api_result(resp) # None /\ cache.kind = "dict"
                    THEN w
                    ELSE last_save

CacheCleanup(w) ==
    /\ CleanupWith(w)
    /\ last_save' = w

CacheRestart ==
    /\ Restart
    /\ last_save' = "none"

\* one CommitAnalyzer per process, never held back by the ceiling or the
\* budget, over no file, unparsable bytes or a cache that holds c1
InitCache ==
    /\ InitWith({ MaxRequests }, { MaxRequests * estimated_request_cost },
                { Absent, Corrupt, CachedFocus })
    /\ opc = "off"
    /\ use_mock = FALSE
    /\ last_save = "none"
    /\ NoPrompt
    /\ NoParser

NextCache ==
    /\ \/ \E id \in Ids : AnalyzeBegin(id) /\ UNCHANGED last_save
       \/ \E resp \in { RespBugFix, RespFocus, RespBadLabel },
             w \in SaveOutcomes : CacheRespond(resp, w)
       \/ AnalyzeReturn /\ UNCHANGED last_save
       \/ \E w \in SaveOutcomes : CacheCleanup(w)
       \/ CacheRestart
    /\ UNCHANGED << ovars, pvars, gvars >>

SpecCache == InitCache /\ [][NextCache]_vars

\* ------------------------------------------------------------------------
\* retry_offline_data over files it cannot work through
\* ------------------------------------------------------------------------
\* unparsable bytes, the cache object of an analyzer, a queue whose second or
\* only entry has no 'data', and a well-formed queue
InitSweepFailure ==
    /\ InitWith({ 2 }, { 12 },
                { Corrupt,
                  CachedFocus,
                  JsonList(<< Entry(1, QueuedPayload, 0), MalformedEntry(2) >>),
                  JsonList(<< MalformedEntry(1) >>),
                  JsonList(<< Entry(1, QueuedPayload, 0) >>) })
    /\ MainOff
    /\ NoPrompt

NextSweepFailure ==
    /\ \/ \E id \in Ids : StoreBegin(CommitData(id, RespBugFix.label))
       \/ \E reply \in DeliveryReplies : StoreSend(reply)
       \/ StoreOffline
       \/ StoreReturn
       \/ \E readable \in BOOLEAN : SweepBeginWith(readable)
       \/ \E reply \in DeliveryReplies : SweepEntry(reply)
       \/ SweepFinish
       \/ SweepReturn
    /\ UNCHANGED << ovars, pvars, cvars, gvars >>

SpecSweepFailure == InitSweepFailure /\ [][NextSweepFailure]_vars


\* ========================================================================
\* Properties
\* ========================================================================
\* timestamps this analyzer recorded that lie in the trailing window
InWindow == { i \in DOMAIN admitted : clock - admitted[i] < RATE_WINDOW }

\* C1: at every moment the number of admitted requests whose recorded
\* timestamp lies inside the trailing 60-second window is at most
\* max_requests_per_minute.
RateInvariant == Cardinality(InWindow) <= max_requests_per_minute

\* more requests were admitted than the ceiling allows in one window, and
\* the window is full
RateWitness ==
    /\ Len(admitted) > max_requests_per_minute
    /\ Cardinality(InWindow) = max_requests_per_minute

\* C2: a remote call is in flight only if the cumulative cost plus one
\* per-call estimate is within monthly_budget, and the cumulative cost never
\* exceeds monthly_budget.
BudgetInvariant ==
    /\ apc = "calling" =>
           estimated_cost + estimated_request_cost <= monthly_budget
    /\ estimated_cost <= monthly_budget

\* money was spent and the next call is refused by the budget check
BudgetWitness ==
    /\ apc = "done"
    /\ cur.result = None
    /\ ~ cur.remote
    /\ estimated_cost > 0
    /\ estimated_cost + estimated_request_cost > monthly_budget

\* C3: when store_analysis returns after a failed delivery, the mapped
\* payload is in the persisted offline queue as an entry with retry_count 0.
OfflineDurability ==
    (spc = "done" /\ ~ sresult) =>
        \E i \in DOMAIN QueueEntries(offline_file) :
            /\ QueueEntries(offline_file)[i].data = sdata
            /\ QueueEntries(offline_file)[i].retry_count = 0
            /\ QueueEntries(offline_file)[i].eid = nextEid - 1

\* C4: a step of the analyzer leaves the persisted offline entries unchanged
\* and a step of the delivery client leaves the persisted cache entries
\* unchanged.
StoresIndependent ==
    [][ /\ (AnalyzerStep(Responses) =>
               QueueEntries(offline_file)' = QueueEntries(offline_file))
        /\ (ClientStep(DeliveredLabels) =>
               CacheEntries(offline_file)' = CacheEntries(offline_file)) ]_vars

\* C5: an entry leaves the persisted queue only after a delivery attempt for
\* it has succeeded.
NoDataLoss ==
    [][ \A e \in EidsOf(QueueEntries(offline_file)) :
            \/ e \in EidsOf(QueueEntries(offline_file))'
            \/ e \in deliveredOK' ]_vars

\* C6: once analyze_commit has returned a result for an identity, a later
\* analyze_commit for that identity returns the same result and makes no
\* remote call.
Idempotence ==
    (apc = "done" /\ cur.prior # None) =>
        /\ cur.result = cur.prior
        /\ ~ cur.remote

IdempotenceWitness ==
    /\ apc = "done"
    /\ cur.prior # None
    /\ cur.result = cur.prior
    /\ runs > 1

\* the responses C7 names: a field missing, a label outside the enumerated
\* set, a confidence outside [0,1]
Rejectable(r) ==
    /\ r.kind = "json"
    /\ \/ ~ (required_fields \subseteq r.has)
       \/ r.label \notin PRODUCTIVITY_LABELS
       \/ (r.confNum /\ (r.confidence < 0 \/ r.confidence > 100))

\* C7: after such a response analyze_commit returns None and neither the
\* in-memory cache nor the persisted cache holds an entry for the identity.
ValidationRejection ==
    (apc = "done" /\ cur.remote /\ Rejectable(cur.resp)) =>
        /\ cur.result = None
        /\ ~ (cache.kind = "dict" /\ cur.id \in DOMAIN cache.map)
        /\ cur.id \notin DOMAIN CacheEntries(offline_file)

\* a response with every field, a known label and confidence 1.5 came back
\* while the cache file already held another identity
ValidationWitness ==
    /\ apc = "done"
    /\ cur.remote
    /\ cur.resp = RespHighConfidence
    /\ DOMAIN CacheEntries(offline_file) # {}

\* C8: over any sequence of sweeps no entry receives more than 5 failed
\* sweep attempts.
RetryCapBound == \A e \in Eids : attempts[e] <= RETRY_CAP

\* the entries the finished sweep loaded at or above the cap
CappedLoaded ==
    { i \in DOMAIN offline_data : offline_data[i].retry_count >= RETRY_CAP }

SweepRemovesDelivered ==
    wpc = "done" =>
        /\ \A i \in DOMAIN offline_data :
               LET e == offline_data[i] IN
               /\ outcome[e.eid] = "ok" =>
                      e.eid \notin EidsOf(QueueEntries(offline_file))
               /\ outcome[e.eid] = "fail" =>
                      \E j \in DOMAIN QueueEntries(offline_file) :
                          /\ QueueEntries(offline_file)[j].eid = e.eid
                          /\ QueueEntries(offline_file)[j].data = e.data
        /\ EidsOf(QueueEntries(offline_file)) =
               { offline_data[i].eid : i \in DOMAIN offline_data }
                   \ { e \in Eids : outcome[e] = "ok" }

\* one sweep delivered an entry and failed to deliver another
SweepWitness ==
    /\ wpc = "done"
    /\ \E e \in Eids : outcome[e] = "ok"
    /\ \E e \in Eids : outcome[e] = "fail"

\* remote model calls this analyzer has made so far
RECURSIVE SumCalls(_, _)
SumCalls(f, S) ==
    IF S = {} THEN 0
    ELSE LET i == CHOOSE x \in S : TRUE IN f[i] + SumCalls(f, S \ { i })

\* C11: whenever no remote call is in flight, the cumulative estimated cost
\* is the per-call estimate times the number of remote calls the analyzer has
\* made, whatever each call's outcome was.
CostPerAttempt ==
    apc # "calling" =>
        estimated_cost = estimated_request_cost * SumCalls(calls_of, Ids)

\* analyze_commit is returning a refusal by the budget check: no cache hit,
\* no remote call, no result
BudgetRefused ==
    /\ apc = "done"
    /\ cur.result = None
    /\ ~cur.remote

\* C12: when analyze_commit returns after the budget check refused it, the
\* sliding window holds the timestamps it held when the call began, less the
\* ones that expired.
BudgetRefusalRecordsNothing ==
    BudgetRefused =>
        \E t \in 0 .. clock :
            request_times = prune_request_times(cur.before, t)

\* C13 as claimed: an analyzer makes at most one remote call for each
\* identity, failed and rejected calls included.
AtMostOneRemoteCall == \A id \in Ids : calls_of[id] <= 1

\* C13 as amended: over the life of the cache file at most one remote call
\* per identity ends with analyze_commit returning its classification; a
\* call that failed or whose response was rejected may be made again.
AtMostOneClassification == \A id \in Ids : classified_of[id] <= 1

\* an identity whose first remote call was rejected, whose second one was
\* returned, and which is now served from the cache
RepeatedCallWitness ==
    /\ apc = "done"
    /\ ~cur.remote
    /\ cur.result # None
    /\ calls_of[cur.id] = 2
    /\ classified_of[cur.id] = 1

\* the last instant the clock reaches
LastClock == (MaxClock \div TickStep) * TickStep

\* every admission that follows ceiling-many others comes at least a window
\* after the oldest of them
AdmittedAfterOldestExpired ==
    \A i \in DOMAIN admitted :
        i > max_requests_per_minute =>
            admitted[i] - admitted[i - max_requests_per_minute] >= RATE_WINDOW

\* C14: an admission request made while ceiling-many timestamps lie within
\* the window does not return before the oldest of them is 60 seconds old,
\* and a request that is waiting is eventually admitted.
BlockingAdmission ==
    /\ []AdmittedAfterOldestExpired
    /\ (apc = "sleeping" /\ wakeAt <= LastClock) ~> (apc \in { "calling", "done" })

\* a request that had to wait has been admitted
BlockingWitness ==
    /\ apc \in { "calling", "done" }
    /\ cur.slept
    /\ Len(admitted) > max_requests_per_minute

\* the sink answered with a 2xx status
Accepted2xx(reply) == reply.status >= 200 /\ reply.status <= 299

\* C15: store_analysis falls back to the offline queue only after the sink
\* answered with a status outside 2xx or the request failed: a payload the
\* sink accepted with a 2xx status is not put into the offline queue.
AcceptedNotQueued ==
    (spc = "offline" \/ (spc = "done" /\ ~sresult)) => ~Accepted2xx(sreply)

\* C16: when store_analysis returns True the sink accepted the payload, and
\* when it returns False it has called the offline fallback, whatever made
\* the delivery fail.
StoreNeverRaises ==
    spc = "done" =>
        /\ sresult => Accepted2xx(sreply)
        /\ ~sresult => soffline

\* every commit found has been classified or refused
AllLookedAt == Range(commits) = Shas(analyzed_commits) \cup refused

\* C17: a change for which analyze_commit returned None or raised is never
\* handed to store_analysis, and the changes after it are still analyzed:
\* when delivery starts every commit found has been classified or refused.
RefusalExcludes ==
    /\ \A i \in DOMAIN stored : stored[i] \notin refused
    /\ opc \in { "deliver", "delivering" } => AllLookedAt

\* the first of two changes was refused and the second is being delivered
RefusalWitness ==
    /\ opc = "delivering"
    /\ Len(commits) = 2
    /\ commits[1] \in refused
    /\ stored = << commits[2] >>

\* C18: when main has ended, whichever way it left its try block, the file
\* holds the in-memory cache and the delivery client holds no open session.
GuaranteedCleanup ==
    opc = "exited" => offline_file = cache /\ ~session

\* a run interrupted after it had classified a change and begun to deliver
CleanupWitness ==
    /\ opc = "exited"
    /\ exit_path = "interrupt"
    /\ Len(stored) > 0
    /\ cache.kind = "dict" /\ DOMAIN cache.map # {}

\* C19 as claimed: while a change is being classified, every change that
\* was classified before it has been handed to the delivery client.
OneChangeEndToEnd ==
    opc = "classifying" =>
        \A i \in DOMAIN analyzed_commits :
            analyzed_commits[i].commit_sha \in Range(stored)

\* C19 as amended: classification and delivery never overlap, and no change
\* is handed to the delivery client before the last change found has been
\* through classification.
PhaseByPhase ==
    /\ ~(apc # "idle" /\ spc # "idle")
    /\ (spc # "idle" \/ Len(stored) > 0) => pos > Len(commits)

\* the second of two classified changes is being delivered
PhaseWitness ==
    /\ opc = "delivering"
    /\ Len(analyzed_commits) = 2
    /\ spos = 2

\* the commit of scenario B and one of 4 changed lines
LargeCommit == PromptCommit(FALSE, 25, 600, 0)
SmallCommit == PromptCommit(FALSE, 1, 4, 0)

\* C20: the template chosen is the merge one for a merge commit; otherwise
\* the large one for more than 20 files or more than 500 changed lines;
\* otherwise the small one for fewer than 10 changed lines; otherwise the
\* standard one. 600 lines in 25 files give the large template and 4 lines
\* the small one.
TemplateRouting ==
    base_prompt # "" =>
        LET c == prompt_commit
            total == c.additions + c.deletions
            large == c.files_changed > 20 \/ total > 500
            small == total < 10
        IN
        /\ c.is_merge => base_prompt = "MERGE_COMMIT_PROMPT"
        /\ ~c.is_merge /\ large => base_prompt = "LARGE_COMMIT_PROMPT"
        /\ ~c.is_merge /\ ~large /\ small => base_prompt = "SMALL_COMMIT_PROMPT"
        /\ ~c.is_merge /\ ~large /\ ~small =>
               base_prompt = "ANALYSIS_PROMPT_TEMPLATE"
        /\ c = LargeCommit => base_prompt = "LARGE_COMMIT_PROMPT"
        /\ c = SmallCommit => base_prompt = "SMALL_COMMIT_PROMPT"

\* a commit that is both large (25 files) and small (4 lines) was routed
RoutingWitness ==
    /\ base_prompt = "LARGE_COMMIT_PROMPT"
    /\ prompt_commit = PromptCommit(FALSE, 25, 4, 0)

\* C21: the prompt analyze_commit builds for a change comes from the template
\* the four-way routing selects for that change, the merge-specific one for
\* a merge commit.
RoutedTemplateUsed ==
    prompt # "" => prompt = get_analysis_prompt(prompt_commit)

\* C22: every classification result main passes on to delivery, whether it
\* came from a remote call, from the cache file or from the mock classifier,
\* has a label of the enumerated set and a confidence between 0 and 1.
ValidResult(analysis) ==
    /\ analysis.label \in PRODUCTIVITY_LABELS
    /\ analysis.confNum
    /\ analysis.confidence >= 0
    /\ analysis.confidence <= 100

ResultsPassedOnAreValid ==
    opc \in { "deliver", "delivering" } =>
        \A i \in DOMAIN analyzed_commits :
            ValidResult(analyzed_commits[i].analysis)

\* C23: for every change main hands to store_analysis, the payload's commit_id
\* is the change's identity, its lines_added, lines_deleted and files_changed
\* are the change's extracted statistics, and the duration is computed from
\* those statistics.
PayloadEchoesChange ==
    (opc = "delivering" /\ spc = "sending") =>
        LET commit == extract_commit_data(analyzed_commits[spos].commit_sha) IN
        /\ sdata.commit_id = commit.id
        /\ sdata.lines_added = commit.stats.additions
        /\ sdata.lines_deleted = commit.stats.deletions
        /\ sdata.files_changed = commit.files_changed
        /\ sdata.duration_minutes =
               duration_minutes(commit.stats.additions + commit.stats.deletions)

\* C24: the 'OpenAI requests made' count of the summary is the number of
\* remote calls attempted during the run, at least as many commits were
\* classified as delivered, and at least as many found as classified.
SummaryCountsAttempts ==
    (opc = "finally" /\ exit_path = "normal") =>
        /\ request_count = SumCalls(calls_of, Ids)
        /\ Len(analyzed_commits) >= success_count
        /\ Len(commits) >= Len(analyzed_commits)

\* C25: if the repository cannot be opened get_recent_commits returns an
\* empty list without raising, and if extraction of a single revision fails
\* that revision alone is left out while every other revision of the window
\* is returned.
RECURSIVE Extractable(_)
Extractable(w) ==
    IF w = << >> THEN << >>
    ELSE IF Head(w).extractable
         THEN << extract_commit_data(Head(w).id) >> \o Extractable(Tail(w))
         ELSE Extractable(Tail(w))

ExtractionFailureSemantics ==
    gpc = "returned" =>
        /\ ~repo => recent = << >>
        /\ (repo /\ ~iter_failed) => recent = Extractable(window)

SkippedRevisionWitness ==
    /\ gpc = "returned"
    /\ repo
    /\ ~iter_failed
    /\ Len(window) = 3
    /\ ~window[2].extractable
    /\ Len(recent) = 2

\* C26: for every offline entry retry_count starts at 0, never decreases,
\* is one more after each sweep whose attempt on the entry failed, and never
\* exceeds the cap of 5.
RetryCountStep ==
    LET before == QueueEntries(offline_file)
        after == QueueEntries(offline_file')
    IN
    /\ \A j \in DOMAIN after :
           /\ after[j].retry_count <= RETRY_CAP
           /\ after[j].eid \notin EidsOf(before) => after[j].retry_count = 0
           /\ \A i \in DOMAIN before :
                  before[i].eid = after[j].eid =>
                      after[j].retry_count >= before[i].retry_count
    /\ (wpc = "iter" /\ wpc' = "done") =>
           \A i \in DOMAIN offline_data :
               outcome[offline_data[i].eid] = "fail" =>
                   \E j \in DOMAIN after :
                       /\ after[j].eid = offline_data[i].eid
                       /\ after[j].retry_count =
                              offline_data[i].retry_count + 1

RetryCountMonotone == [][RetryCountStep]_vars

\* the entries a finished sweep loaded and attempted without success, as
\* they are kept: in the order loaded, with one more retry
RECURSIVE FailedInSweep(_, _)
FailedInSweep(loaded, oc) ==
    IF loaded = << >> THEN << >>
    ELSE LET e == Head(loaded)
             rest == FailedInSweep(Tail(loaded), oc)
         IN IF oc[e.eid] = "fail"
            THEN << [ e EXCEPT !.retry_count = e.retry_count + 1 ] >> \o rest
            ELSE rest

\* the entries a finished sweep loaded and did not deliver: those attempted
\* without success, with one more retry, and those it passed over at the cap,
\* unchanged, in the order loaded
RECURSIVE UndeliveredInSweep(_, _)
UndeliveredInSweep(loaded, oc) ==
    IF loaded = << >> THEN << >>
    ELSE LET e == Head(loaded)
             rest == UndeliveredInSweep(Tail(loaded), oc)
         IN IF oc[e.eid] = "ok" THEN rest
            ELSE IF oc[e.eid] = "fail"
            THEN << [ e EXCEPT !.retry_count = e.retry_count + 1 ] >> \o rest
            ELSE << e >> \o rest

EnqueueStep ==
    (spc = "offline" /\ spc' = "done") =>
        QueueEntries(offline_file') =
            Append(QueueEntries(offline_file), Entry(nextEid, sdata, 0))

EnqueuesExactlyOnce == [][EnqueueStep]_vars

\* C29: a missing or corrupt cache file makes the analyzer start with an
\* empty cache; a failed cache write leaves what is in memory as it is, the
\* new entry included, which is then served as a cache hit; and a successful
\* write persists everything that is in memory.
CacheFailureStep ==
    /\ (runs' # runs /\ offline_file.kind \in { "absent", "corrupt" }) =>
           cache' = JsonDict(EmptyMap)
    /\ (apc = "calling" /\ apc' = "done" /\ cur'.result # None) =>
           /\ cache'.kind = "dict"
           /\ cur.id \in DOMAIN cache'.map
           /\ cache'.map[cur.id] = cur'.result
    /\ runs' = runs =>
           \A k \in DOMAIN cache.map :
               /\ k \in DOMAIN cache'.map
               /\ (apc # "calling" \/ k # cur.id) => cache'.map[k] = cache.map[k]
    /\ (apc = "idle" /\ apc' = "done" /\ cur'.id \in DOMAIN cache.map) =>
           /\ ~cur'.remote
           /\ cur'.result = cache.map[cur'.id]
    /\ last_save' = "ok" => offline_file' = cache'

CacheFailuresNonFatal == [][CacheFailureStep]_vars

\* a cache hit on an entry whose write failed and that is not in the file
UnsavedHitWitness ==
    /\ apc = "done"
    /\ ~cur.remote
    /\ cur.result # None
    /\ last_save \in { "unopened", "truncated" }
    /\ cur.id \notin DOMAIN CacheEntries(offline_file)

\* C30: when analyze_commit finds the identity in the cache it makes no
\* remote call, records no admission timestamp, leaves the cumulative cost
\* and the request count unchanged, and does not rewrite the cache file.
CacheHitStep ==
    (apc = "idle" /\ apc' = "done" /\ cache.kind = "dict"
        /\ cur'.id \in DOMAIN cache.map) =>
        /\ cur'.result = cache.map[cur'.id]
        /\ ~cur'.remote
        /\ UNCHANGED << request_times, admitted, calls_of, estimated_cost,
                        request_count, offline_file, cache >>

CacheHitBypassesGovernor == [][CacheHitStep]_vars

\* a cache hit in a process that has made a remote call before
CacheHitWitness ==
    /\ apc = "done"
    /\ cache_has(cache, cur.id)
    /\ ~cur.remote
    /\ cur.result = cache.map[cur.id]
    /\ cur.before = request_times
    /\ Len(admitted) > 0

\* C31: in every analyze_commit that reaches the remote model the admission
\* timestamp is in request_times when the remote call starts, and it is
\* still there when the call is over, whether it succeeded or failed.
AdmissionRecordedStep ==
    /\ (apc # "calling" /\ apc' = "calling") =>
           /\ request_times' # << >>
           /\ request_times'[Len(request_times')] = clock
           /\ admitted'[Len(admitted')] = clock
    /\ (apc = "calling" /\ apc' = "done") =>
           /\ request_times' = request_times
           /\ request_times' # << >>
           /\ request_times'[Len(request_times')] = admitted[Len(admitted)]

AdmissionRecordedBeforeCall == [][AdmissionRecordedStep]_vars

\* a remote call that failed, its admission still in the window
FailedCallWitness ==
    /\ apc = "done"
    /\ cur.remote
    /\ cur.result = None
    /\ request_times # << >>
    /\ request_times[Len(request_times)] = admitted[Len(admitted)]

\* C32: for non-negative additions and deletions duration_minutes is
\* floor((additions + deletions) / 2) clamped to 5..120: an integer between 5
\* and 120 that does not decrease as the number of changed lines grows.
DurationClamp ==
    /\ \A n \in 0 .. MaxLines : duration_minutes(n) <= duration_minutes(n + 1)
    /\ spc = "sending" =>
           LET half == (sdata.lines_added + sdata.lines_deleted) \div 2 IN
           /\ sdata.duration_minutes =
                  IF half < 5 THEN 5 ELSE IF half > 120 THEN 120 ELSE half
           /\ sdata.duration_minutes \in 5 .. 120

\* an odd number of changed lines above the ceiling
DurationWitness ==
    /\ spc = "sending"
    /\ sdata.lines_added + sdata.lines_deleted = 241
    /\ sdata.duration_minutes = 120

\* C33: with a ceiling of at least 1 _check_rate_limits only delays and then
\* admits, so the only refusal analyze_commit returns without a remote call
\* comes from the budget check.
RateCheckNeverRefuses ==
    max_requests_per_minute >= 1 =>
        /\ apc # "raised"
        /\ BudgetRefused =>
               /\ estimated_cost + estimated_request_cost > monthly_budget
               /\ admitted # << >>

\* a request the rate check delayed and admitted, refused by the budget
DelayedThenRefusedWitness ==
    /\ max_requests_per_minute >= 1
    /\ BudgetRefused
    /\ cur.slept
    /\ Len(admitted) >= 2

\* C34: once the budget is used up, an analyze_commit on an identity that is
\* not cached returns its refusal without having been suspended on the rate
\* window.
BudgetRefusalDoesNotWait ==
    BudgetRefused => ~cur.slept

\* C35: an offline entry that store_analysis persists after a sweep has
\* loaded the queue and before the sweep rewrites or removes the file is
\* still in the persisted queue when the sweep finishes.
EnqueuedDuringSweepStep ==
    (wpc = "iter" /\ wpc' = "done") =>
        \A i \in DOMAIN QueueEntries(offline_file) :
            QueueEntries(offline_file)[i].eid \notin EidsOf(offline_data) =>
                QueueEntries(offline_file)[i] \in
                    Range(QueueEntries(offline_file'))

EnqueuedDuringSweepKept == [][EnqueuedDuringSweepStep]_vars

\* C36: a change whose classification is served from the cache is handed to
\* store_analysis like a fresh one, so a run of main over commits that are
\* already classified hands each of them to the delivery client once.
CachedDeliveredStep ==
    /\ (opc = "classifying" /\ opc' = "classify" /\ apc = "done"
           /\ ~cur.remote /\ cur.result # None) =>
           analyzed_commits' =
               Append(analyzed_commits, AnalyzedCommit(cur.id, cur.result))
    /\ (opc' = "finally" /\ exit_path' = "normal") =>
           stored' = [ i \in DOMAIN analyzed_commits' |->
                           analyzed_commits'[i].commit_sha ]

CachedChangesDeliveredAgain == [][CachedDeliveredStep]_vars

\* a second run that made no remote call and delivered two classifications
RedeliveryWitness ==
    /\ runs = 2
    /\ opc = "finally"
    /\ exit_path = "normal"
    /\ ~use_mock
    /\ SumCalls(calls_of, Ids) = 0
    /\ Len(stored) = 2
    /\ success_count = 2

\* C37: a sweep that completes returns attempted = successful + failed, where
\* attempted is the number of entries it loaded from the queue file and
\* failed is the number of entries left in the persisted queue afterwards.
SweepStatistics ==
    wpc = "done" =>
        /\ stats.attempted = stats.successful + stats.failed
        /\ stats.attempted = Len(offline_data)
        /\ stats.failed = Len(QueueEntries(offline_file))
        /\ stats.successful =
               Cardinality({ e \in EidsOf(offline_data) : outcome[e] = "ok" })

\* a sweep that delivered one entry and kept another
StatisticsWitness ==
    /\ wpc = "done"
    /\ stats = Stats(2, 1, 1)

\* C38: a sweep that fails with an error (the file cannot be read, is not
\* valid JSON, or holds a malformed entry) returns all-zero statistics
\* without raising and leaves the queue file with the content it had before
\* the sweep.
SweepFailureStep ==
    /\ (wpc = "idle" /\ wpc' = "done") =>
           /\ stats' = ZeroStats
           /\ offline_file' = offline_file
    /\ (wpc = "iter" /\ wpc' = "done"
           /\ \E i \in DOMAIN offline_data : "data" \notin DOMAIN offline_data[i]) =>
           /\ stats' = ZeroStats
           /\ offline_file' = offline_file
           /\ offline_file' = JsonList(offline_data)
    /\ (wpc = "iter" /\ wpc' = "iter") => offline_file' = offline_file

SweepFailureLeavesQueue == [][SweepFailureStep]_vars

\* a sweep that delivered its first entry and failed on the second
FailedSweepWitness ==
    /\ wpc = "done"
    /\ Len(offline_data) = 2
    /\ idx = 2
    /\ outcome[offline_data[1].eid] = "ok"
    /\ stats = ZeroStats
    /\ offline_file = JsonList(offline_data)

====
